---- MODULE Spec2Model ----
(***************************************************************************)
(* Model of migrate_github_repos.py: the batch loop migrate_repos and the  *)
(* streaming child-process runner run_streaming.                           *)
(*                                                                         *)
(* Strings are sequences of one-character strings.  The main thread is a   *)
(* program counter pc over the statements of migrate_repos and of the      *)
(* run_streaming call it makes per item.  The environment supplies the     *)
(* CSV rows, the child's output lines and exit code, I/O failures, and     *)
(* the operator's Ctrl+C (KeyboardInterrupt), which Python may raise in    *)
(* the main thread at any statement.                                       *)
(***************************************************************************)
EXTENDS Naturals, Sequences, FiniteSets

\* ---------------------------------------------------------------- bounds
MaxRows == 2        \* rows of repos.csv
MaxLines == 1       \* output lines one child prints
MaxInterrupts == 2  \* Ctrl+C presses during one run
MaxNameLen == 3     \* characters of a name given to safe_log_name on its own

\* ------------------------------------------------------------ input data
\* Python's None (the CSV column is missing from the row): a value that is no
\* string of the model's alphabet.
None == <<"None">>

\* Rows of repos.csv as csv.DictReader yields them.
RowSet ==
  { [cur |-> <<"a">>,            new |-> None],
    [cur |-> <<" ", "b">>,       new |-> <<"c", " ">>],
    [cur |-> <<"a", "/", "/">>,  new |-> <<" ">>],
    [cur |-> <<" ">>,            new |-> <<"c">>],
    [cur |-> None,               new |-> <<"a">>] }

\* The text a child process prints, line by line (at most MaxLines of them
\* are read in the model).
ChildLines == <<"l1", "l2", "l3", "l4">>

\* Exit codes a child process may return.
ExitCodes == {0, 1}

SeqsUpTo(S, n) == UNION { [1..k -> S] : k \in 0..n }

\* A MigrationDetails.csv left in the working directory by an earlier run.
StaleRows == << [SourceRepo |-> <<"o">>, TargetRepo |-> <<"o">>,
                 Status |-> "Success", LogFile |-> <<"logs/", "o", "__to__", "o", ".log">>] >>

\* ------------------------------------------------------- string helpers
\* (value or ""): None and the empty string both give "".
OrEmpty(v) == IF v = None THEN <<>> ELSE v

IsSpace(c) == c = " "

RECURSIVE LStrip(_)
LStrip(s) == IF s # <<>> /\ IsSpace(Head(s)) THEN LStrip(Tail(s)) ELSE s

RECURSIVE RStrip(_)
RStrip(s) ==
  IF s # <<>> /\ IsSpace(s[Len(s)]) THEN RStrip(SubSeq(s, 1, Len(s) - 1)) ELSE s

\* str.strip()
Strip(s) == RStrip(LStrip(s))

\* The character class [A-Za-z0-9._-] of safe_log_name's pattern, over the
\* model's alphabet.
Allowed(c) == c \in {"a", "b", "c", "o", ".", "-", "_"}

\* The rest of a string after the disallowed characters it starts with.
RECURSIVE SkipRun(_)
SkipRun(s) == IF s # <<>> /\ ~Allowed(Head(s)) THEN SkipRun(Tail(s)) ELSE s

\* Mutant: re.sub(..., count=1), only the first run is replaced.
RECURSIVE safe_log_name_first(_)
safe_log_name_first(name) ==
  IF name = <<>> THEN <<>>
  ELSE IF Allowed(Head(name)) THEN <<Head(name)>> \o safe_log_name_first(Tail(name))
  ELSE <<"_">> \o SkipRun(name)

\* Mutant: the pattern without "+", one "_" per disallowed character.
RECURSIVE safe_log_name_each(_)
safe_log_name_each(name) ==
  IF name = <<>> THEN <<>>
  ELSE IF Allowed(Head(name)) THEN <<Head(name)>> \o safe_log_name_each(Tail(name))
  ELSE <<"_">> \o safe_log_name_each(Tail(name))

\* re.sub(r"[^A-Za-z0-9._-]+", "_", name): every maximal run of characters
\* outside the class becomes one "_".
RECURSIVE safe_log_name(_)
safe_log_name(name) ==
  IF name = <<>> THEN <<>>
  ELSE IF Allowed(Head(name)) THEN <<Head(name)>> \o safe_log_name(Tail(name))
  ELSE IF Len(name) > 1 /\ ~Allowed(name[2]) THEN safe_log_name(Tail(name))
  ELSE <<"_">> \o safe_log_name(Tail(name))

\* ------------------------------------------------- migrate_repos helpers
\* Mutant: the name is not stripped before it is tested.
NonBlank_nostrip(row) == OrEmpty(row.cur) # <<>>

\* The list comprehension's condition: (row.get("CURRENT-NAME") or "").strip()
NonBlank(row) == Strip(OrEmpty(row.cur)) # <<>>

\* Mutant: no row is filtered out.
FilterRows_all(rows) == rows

\* repo_list = [row for row in reader if ...]
RECURSIVE FilterRows(_)
FilterRows(rows) ==
  IF rows = <<>> THEN <<>>
  ELSE IF NonBlank(Head(rows)) THEN <<Head(rows)>> \o FilterRows(Tail(rows))
  ELSE FilterRows(Tail(rows))

source_repo(row) == Strip(OrEmpty(row.cur))

\* Mutant: no fallback to CURRENT-NAME.
target_repo_nofallback(row) == Strip(OrEmpty(row.new))

\* NEW-NAME stripped, falling back to CURRENT-NAME when blank.
target_repo(row) ==
  IF Strip(OrEmpty(row.new)) = <<>> THEN source_repo(row) ELSE Strip(OrEmpty(row.new))

\* LOGS_DIR / f"{safe_log_name(source_repo)}__to__{safe_log_name(target_repo)}.log"
per_repo_log(row) ==
  <<"logs/">> \o safe_log_name(source_repo(row)) \o <<"__to__">>
              \o safe_log_name(target_repo(row)) \o <<".log">>

\* success = (proc.returncode == 0)
ExitSuccess(code) == code = 0

\* Mutant: the handler leaves success set.
InterruptSuccess_true == TRUE

\* success = False in the KeyboardInterrupt handler
InterruptSuccess == FALSE

\* The abort marker appended by the KeyboardInterrupt handler.
AbortMarker == "[ABORTED] Interrupted by user."

\* Mutant: the handler does not add the marker to the captured output.
WithAbortMarker_none(lines) == lines

\* output_lines.append("\n[ABORTED] Interrupted by user.\n")
WithAbortMarker(lines) == Append(lines, AbortMarker)

\* status_msg = "Completed" if success else "Failed"
StatusMsg(ok) == IF ok THEN "Completed" ELSE "Failed"

\* Mutant: a failure to open the log file is not caught.
AfterOpenFailure_raise == "crashed"

\* except Exception: after the warning run_streaming goes on to start the child.
AfterOpenFailure == "rs_popen"

\* "Status": "Success" if success else "Failed"
StatusOf(ok) == IF ok THEN "Success" ELSE "Failed"

\* The dict appended to results (organisation names and times left out).
ResultRow(row, ok) ==
  [SourceRepo |-> source_repo(row), TargetRepo |-> target_repo(row),
   Status |-> StatusOf(ok), LogFile |-> per_repo_log(row)]

\* Mutant: the new row is put in front.
AddRow_front(rows, r) == <<r>> \o rows

\* results.append(...)
AddRow(rows, r) == Append(rows, r)

\* Mutant: the loop is left after the first item.
LoopNext_stop(i, n) == "write_report"

\* The `for row in repo_list` loop after an item's row has been appended:
\* the next item, or the report after the last one.
LoopNext(i, n) == IF i < n THEN "item" ELSE "write_report"

\* ------------------------------------------------------------------ state
VARIABLES
  csv,           \* the rows of repos.csv
  report,        \* MigrationDetails.csv on disk: [exists, rows]
  pc,            \* the main thread's position
  repo_list,     \* the filtered rows
  idx,           \* position in repo_list of the item being processed (1-based)
  completed,     \* the completed counter
  results,       \* the accumulated result rows
  errlog,        \* entries added to migration_errors.log by this run
  log_file,      \* run_streaming's log_file: "None", "open" or "closed"
  logs,          \* the per-item log files on disk: path -> lines
  output_lines,  \* run_streaming's output_lines
  success,       \* run_streaming's success
  alive,         \* items whose child process has been started and has not exited
  terminated,    \* items whose child process was sent proc.terminate()
  launched,      \* history: the items a child was started for, in order
  outcomes,      \* history: how each run_streaming call ended: exit0, exitN, intr
  reportWrites,  \* history: how often this run wrote MigrationDetails.csv
  nIntr,         \* history: KeyboardInterrupts raised so far
  exc,           \* the last exception raised in the main thread, or "none"
  cmd,           \* the names put into the command of the current item
  status_msg,    \* the label of the last progress summary printed, or ""
  warnings,      \* history: "[WARN] Could not open log file" lines printed
  san_in,        \* sanitizer check: the name given to safe_log_name
  san_once,      \* sanitizer check: safe_log_name(name), or None
  san_twice      \* sanitizer check: safe_log_name of that, or None

vars == << csv, report, pc, repo_list, idx, completed, results, errlog, log_file,
           logs, output_lines, success, alive, terminated, launched, outcomes,
           reportWrites, nIntr, exc, cmd, status_msg, warnings,
           san_in, san_once, san_twice >>

\* The variables of the sanitizer check.
sanvars == << san_in, san_once, san_twice >>

\* The item being processed and its names.
row == repo_list[idx]
total == Len(repo_list)

\* The next line of the child's output, with its "\n" stripped and put back.
NextLine == ChildLines[Len(output_lines) + 1]

\* Mutant: the line is not written to the log file.
LogWrite_skip(line) == logs

\* write(line) on the log file of the current item, when it is open.
LogWrite(line) ==
  IF log_file = "open"
  THEN [logs EXCEPT ![per_repo_log(row)] = Append(@, line)]
  ELSE logs

\* The statements at which a KeyboardInterrupt is outside run_streaming's
\* try block and so leaves migrate_repos.
EscapePcs == {"read_csv", "item", "rs_open", "rs_popen", "rs_finally",
              "summarise", "append", "write_report"}

\* The statements inside run_streaming's try block.
TryPcs == {"rs_read", "rs_wait"}

Init ==
  /\ csv \in SeqsUpTo(RowSet, MaxRows)
  /\ report \in { [exists |-> FALSE, rows |-> <<>>], [exists |-> TRUE, rows |-> StaleRows] }
  /\ pc = "read_csv"
  /\ repo_list = <<>>
  /\ idx = 0
  /\ completed = 0
  /\ results = <<>>
  /\ errlog = <<>>
  /\ log_file = "None"
  /\ logs = << >>
  /\ output_lines = <<>>
  /\ success = FALSE
  /\ alive = {}
  /\ terminated = {}
  /\ launched = <<>>
  /\ outcomes = <<>>
  /\ reportWrites = 0
  /\ nIntr = 0
  /\ exc = "none"
  /\ cmd = [source |-> <<>>, target |-> <<>>]
  /\ status_msg = ""
  /\ warnings = 0
  /\ san_in = <<>>
  /\ san_once = None
  /\ san_twice = None

\* ---------------------------------------------------------- migrate_repos
\* Lines 129-138: read and filter the CSV; return when nothing is left.
ReadCsv ==
  /\ pc = "read_csv"
  /\ repo_list' = FilterRows(csv)
  /\ IF Len(FilterRows(csv)) = 0
     THEN pc' = "done" /\ idx' = idx
     ELSE pc' = "item" /\ idx' = 1
  /\ UNCHANGED << csv, report, completed, results, errlog, log_file, logs,
                  output_lines, success, alive, terminated, launched, outcomes,
                  reportWrites, nIntr, exc,
                  cmd, status_msg, warnings, sanvars >>

\* Lines 149-175: names, command, log path, and the call of run_streaming.
StartItem ==
  /\ pc = "item"
  /\ cmd' = [source |-> source_repo(row), target |-> target_repo(row)]
  /\ pc' = "rs_open"
  /\ UNCHANGED << csv, report, repo_list, idx, completed, results, errlog, log_file,
                  logs, output_lines, success, alive, terminated, launched, outcomes,
                  reportWrites, nIntr, exc,
                  status_msg, warnings, sanvars >>

\* ---------------------------------------------------------- run_streaming
\* Lines 79-83: the log file is opened for writing (created or truncated).
OpenLog ==
  /\ pc = "rs_open"
  /\ log_file' = "open"
  /\ logs' = [p \in DOMAIN logs \cup {per_repo_log(row)} |->
                IF p = per_repo_log(row) THEN <<>> ELSE logs[p]]
  /\ pc' = "rs_popen"
  /\ UNCHANGED << csv, report, repo_list, idx, completed, results, errlog,
                  output_lines, success, alive, terminated, launched, outcomes,
                  reportWrites, nIntr, exc,
                  cmd, status_msg, warnings, sanvars >>

\* Lines 79-85: makedirs or open raises; a warning is printed, log_file stays None.
OpenLogFails ==
  /\ pc = "rs_open"
  /\ log_file' = "None"
  /\ warnings' = warnings + 1
  /\ pc' = AfterOpenFailure
  /\ UNCHANGED << csv, report, repo_list, idx, completed, results, errlog, logs,
                  output_lines, success, alive, terminated, launched, outcomes,
                  reportWrites, nIntr, exc,
                  cmd, status_msg, sanvars >>

\* Lines 88-99: the child is started; output_lines = [].
Popen ==
  /\ pc = "rs_popen"
  /\ alive' = alive \cup {idx}
  /\ launched' = Append(launched, idx)
  /\ output_lines' = <<>>
  /\ pc' = "rs_read"
  /\ UNCHANGED << csv, report, repo_list, idx, completed, results, errlog, log_file,
                  logs, success, terminated, outcomes, reportWrites, nIntr, exc,
                  cmd, status_msg, warnings, sanvars >>

\* Lines 88-97: subprocess.Popen raises (no shell, fork fails); the call is
\* outside every try block, so the exception leaves run_streaming and
\* migrate_repos.
PopenRaises ==
  /\ pc = "rs_popen"
  /\ pc' = "crashed"
  /\ exc' = "OSError in Popen"
  /\ UNCHANGED << csv, report, repo_list, idx, completed, results, errlog, log_file,
                  logs, output_lines, success, alive, terminated, launched, outcomes,
                  reportWrites, nIntr,
                  cmd, status_msg, warnings, sanvars >>

\* Lines 101-107: one line of child output is printed, accumulated and logged.
ReadLine ==
  /\ pc = "rs_read"
  /\ Len(output_lines) < MaxLines
  /\ output_lines' = Append(output_lines, NextLine)
  /\ logs' = LogWrite(NextLine)
  /\ UNCHANGED << csv, report, pc, repo_list, idx, completed, results, errlog,
                  log_file, success, alive, terminated, launched, outcomes,
                  reportWrites, nIntr, exc,
                  cmd, status_msg, warnings, sanvars >>

\* Lines 101-107, 121-123: log_file.write raises; only KeyboardInterrupt is
\* caught, so the finally clause closes the file and the error propagates.
LogWriteRaises ==
  /\ pc = "rs_read"
  /\ log_file = "open"
  /\ Len(output_lines) < MaxLines
  /\ output_lines' = Append(output_lines, NextLine)
  /\ log_file' = "closed"
  /\ pc' = "crashed"
  /\ exc' = "OSError in write"
  /\ UNCHANGED << csv, report, repo_list, idx, completed, results, errlog, logs,
                  success, alive, terminated, launched, outcomes, reportWrites, nIntr,
                  cmd, status_msg, warnings, sanvars >>

\* Lines 101, 121-123: reading proc.stdout raises (output that is not UTF-8);
\* the finally clause closes the file and the error propagates.
ReadRaises ==
  /\ pc = "rs_read"
  /\ log_file' = (IF log_file = "open" THEN "closed" ELSE log_file)
  /\ pc' = "crashed"
  /\ exc' = "UnicodeDecodeError"
  /\ UNCHANGED << csv, report, repo_list, idx, completed, results, errlog, logs,
                  output_lines, success, alive, terminated, launched, outcomes,
                  reportWrites, nIntr,
                  cmd, status_msg, warnings, sanvars >>

\* Line 101: end of the child's output.
EndOfOutput ==
  /\ pc = "rs_read"
  /\ pc' = "rs_wait"
  /\ UNCHANGED << csv, report, repo_list, idx, completed, results, errlog, log_file,
                  logs, output_lines, success, alive, terminated, launched, outcomes,
                  reportWrites, nIntr, exc,
                  cmd, status_msg, warnings, sanvars >>

\* Lines 109-110: the child has exited; success from its return code.
Wait(code) ==
  /\ pc = "rs_wait"
  /\ alive' = alive \ {idx}
  /\ success' = ExitSuccess(code)
  /\ outcomes' = Append(outcomes, IF code = 0 THEN "exit0" ELSE "exitN")
  /\ pc' = "rs_finally"
  /\ UNCHANGED << csv, report, repo_list, idx, completed, results, errlog, log_file,
                  logs, output_lines, terminated, launched, reportWrites, nIntr, exc,
                  cmd, status_msg, warnings, sanvars >>

\* Lines 111-120: KeyboardInterrupt inside the try block.  proc.terminate()
\* is requested and not waited for: the child stays alive until it exits.
HandleInterrupt ==
  /\ pc \in TryPcs
  /\ nIntr < MaxInterrupts
  /\ nIntr' = nIntr + 1
  /\ terminated' = terminated \cup {idx}
  /\ success' = InterruptSuccess
  /\ output_lines' = WithAbortMarker(output_lines)
  /\ logs' = LogWrite(AbortMarker)
  /\ outcomes' = Append(outcomes, "intr")
  /\ exc' = "KeyboardInterrupt"
  /\ pc' = "rs_finally"
  /\ UNCHANGED << csv, report, repo_list, idx, completed, results, errlog, log_file,
                  alive, launched, reportWrites,
                  cmd, status_msg, warnings, sanvars >>

\* Lines 121-125: the finally clause closes the log file; return.
Finally ==
  /\ pc = "rs_finally"
  /\ log_file' = (IF log_file = "open" THEN "closed" ELSE log_file)
  /\ pc' = "summarise"
  /\ UNCHANGED << csv, report, repo_list, idx, completed, results, errlog, logs,
                  output_lines, success, alive, terminated, launched, outcomes,
                  reportWrites, nIntr, exc,
                  cmd, status_msg, warnings, sanvars >>

\* A child that was sent terminate() exits.
TerminatedChildExits(i) ==
  /\ i \in alive \cap terminated
  /\ alive' = alive \ {i}
  /\ UNCHANGED << csv, report, pc, repo_list, idx, completed, results, errlog,
                  log_file, logs, output_lines, success, terminated, launched,
                  outcomes, reportWrites, nIntr, exc,
                  cmd, status_msg, warnings, sanvars >>

\* ------------------------------------------------- migrate_repos, continued
\* The entry logging.error writes for a failed item.
ErrorEntry(i, r, out) ==
  [item |-> i, source |-> source_repo(r), target |-> target_repo(r), output |-> out]

\* Lines 176-190: count, print the summary line, log the failure.
Summarise ==
  /\ pc = "summarise"
  /\ completed' = completed + 1
  /\ status_msg' = StatusMsg(success)
  /\ errlog' = (IF ~success THEN Append(errlog, ErrorEntry(idx, row, output_lines))
                ELSE errlog)
  /\ pc' = "append"
  /\ UNCHANGED << csv, report, repo_list, idx, results, log_file, logs, output_lines,
                  success, alive, terminated, launched, outcomes, reportWrites,
                  nIntr, exc,
                  cmd, warnings, sanvars >>

\* Lines 192-203 and the loop header: append the row, go on.
AppendResult ==
  /\ pc = "append"
  /\ results' = AddRow(results, ResultRow(row, success))
  /\ pc' = LoopNext(idx, total)
  /\ idx' = (IF LoopNext(idx, total) = "item" THEN idx + 1 ELSE idx)
  /\ UNCHANGED << csv, report, repo_list, completed, errlog, log_file, logs,
                  output_lines, success, alive, terminated, launched, outcomes,
                  reportWrites, nIntr, exc,
                  cmd, status_msg, warnings, sanvars >>

\* Lines 205-218: MigrationDetails.csv is written from results.
WriteReport ==
  /\ pc = "write_report"
  /\ report' = [exists |-> TRUE, rows |-> results]
  /\ reportWrites' = reportWrites + 1
  /\ pc' = "done"
  /\ UNCHANGED << csv, repo_list, idx, completed, results, errlog, log_file, logs,
                  output_lines, success, alive, terminated, launched, outcomes,
                  nIntr, exc,
                  cmd, status_msg, warnings, sanvars >>

\* ----------------------------------------------------- KeyboardInterrupt
\* Ctrl+C at a statement outside run_streaming's try block: nothing catches
\* it, migrate_repos is left with the exception.
InterruptEscapes ==
  /\ pc \in EscapePcs
  /\ nIntr < MaxInterrupts
  /\ nIntr' = nIntr + 1
  /\ pc' = "crashed"
  /\ exc' = "KeyboardInterrupt"
  /\ UNCHANGED << csv, report, repo_list, idx, completed, results, errlog, log_file,
                  logs, output_lines, success, alive, terminated, launched, outcomes,
                  reportWrites,
                  cmd, status_msg, warnings, sanvars >>

\* Ctrl+C while subprocess.Popen is returning: the child has been started
\* and the exception is raised before the try block is entered.
InterruptAfterPopen ==
  /\ pc = "rs_popen"
  /\ nIntr < MaxInterrupts
  /\ nIntr' = nIntr + 1
  /\ alive' = alive \cup {idx}
  /\ launched' = Append(launched, idx)
  /\ pc' = "crashed"
  /\ exc' = "KeyboardInterrupt"
  /\ UNCHANGED << csv, report, repo_list, idx, completed, results, errlog, log_file,
                  logs, output_lines, success, terminated, outcomes, reportWrites,
                  cmd, status_msg, warnings, sanvars >>

Next ==
  \/ ReadCsv
  \/ StartItem
  \/ OpenLog
  \/ OpenLogFails
  \/ Popen
  \/ PopenRaises
  \/ ReadLine
  \/ LogWriteRaises
  \/ ReadRaises
  \/ EndOfOutput
  \/ \E code \in ExitCodes : Wait(code)
  \/ HandleInterrupt
  \/ Finally
  \/ \E i \in alive : TerminatedChildExits(i)
  \/ Summarise
  \/ AppendResult
  \/ WriteReport
  \/ InterruptEscapes
  \/ InterruptAfterPopen

Spec == Init /\ [][Next]_vars

\* ------------------------------------------------- safe_log_name on its own
\* Characters of the names given to safe_log_name: inside and outside its class.
SanAlphabet == {"a", "_", ".", "/", " "}

\* The variables of migrate_repos and run_streaming.
mainvars == << csv, report, pc, repo_list, idx, completed, results, errlog, log_file,
               logs, output_lines, success, alive, terminated, launched, outcomes,
               reportWrites, nIntr, exc, cmd, status_msg, warnings >>

\* Any name over the alphabet; migrate_repos is not running.
SanInit ==
  /\ san_in \in SeqsUpTo(SanAlphabet, MaxNameLen)
  /\ san_once = None
  /\ san_twice = None
  /\ csv = <<>>
  /\ report = [exists |-> FALSE, rows |-> <<>>]
  /\ pc = "sanitize"
  /\ repo_list = <<>>
  /\ idx = 0
  /\ completed = 0
  /\ results = <<>>
  /\ errlog = <<>>
  /\ log_file = "None"
  /\ logs = << >>
  /\ output_lines = <<>>
  /\ success = FALSE
  /\ alive = {}
  /\ terminated = {}
  /\ launched = <<>>
  /\ outcomes = <<>>
  /\ reportWrites = 0
  /\ nIntr = 0
  /\ exc = "none"
  /\ cmd = [source |-> <<>>, target |-> <<>>]
  /\ status_msg = ""
  /\ warnings = 0

\* safe_log_name(name)
SanitizeOnce ==
  /\ pc = "sanitize"
  /\ san_once = None
  /\ san_once' = safe_log_name(san_in)
  /\ UNCHANGED << san_in, san_twice, mainvars >>

\* safe_log_name applied to its own result
SanitizeTwice ==
  /\ pc = "sanitize"
  /\ san_once # None
  /\ san_twice = None
  /\ san_twice' = safe_log_name(san_once)
  /\ UNCHANGED << san_in, san_once, mainvars >>

SanNext == SanitizeOnce \/ SanitizeTwice

SanSpec == SanInit /\ [][SanNext]_vars

\* ------------------------------------------------------------ type check
TypeOK ==
  /\ pc \in {"read_csv", "item", "rs_open", "rs_popen", "rs_read", "rs_wait",
            "rs_finally", "summarise", "append", "write_report", "done", "crashed"}
  /\ log_file \in {"None", "open", "closed"}
  /\ idx \in 0..MaxRows
  /\ completed \in 0..MaxRows
  /\ alive \subseteq 1..MaxRows
  /\ nIntr \in 0..MaxInterrupts

\* ================================================================ claims
\* The run has ended: migrate_repos returned or was left by an exception.
RunEnded == pc \in {"done", "crashed"}

\* Item i's run_streaming call ended in the KeyboardInterrupt handler.
Interrupted(i) == i \in 1..Len(outcomes) /\ outcomes[i] = "intr"

\* The names an input row stands for: CURRENT-NAME stripped; NEW-NAME
\* stripped, or the source name when NEW-NAME is missing or blank.
SourceName(r) == Strip(OrEmpty(r.cur))
TargetName(r) == IF r.new = None \/ Strip(r.new) = <<>> THEN SourceName(r) ELSE Strip(r.new)

\* The error-log entries written for item i.
ErrorEntriesOf(i) == { k \in 1..Len(errlog) : errlog[k].item = i }

\* ---------------------------------------------------------------- C1
\* C1: once an interrupt has been observed while item i's child was running
\* in run_streaming, no child is started for an item after i, and neither
\* the results nor a written report hold a row for an item after i.
C1_NoItemAfterInterrupt ==
  \A i \in 1..Len(outcomes) :
    Interrupted(i) =>
      /\ \A k \in 1..Len(launched) : launched[k] <= i
      /\ Len(results) <= i
      /\ (reportWrites > 0 => Len(report.rows) <= i)

\* ---------------------------------------------------------------- C2
\* C2: a run that has started processing an item writes MigrationDetails.csv
\* exactly once before it ends, whether it ends by normal completion or by
\* an operator interrupt.  Stated for the runs that have even recorded an
\* item's outcome and saw at most one interrupt.
C2_ReportWrittenOnce ==
  ( /\ Len(results) >= 1
    /\ nIntr <= 1
    /\ (pc = "done" \/ (pc = "crashed" /\ exc = "KeyboardInterrupt")) )
  => reportWrites = 1

\* ---------------------------------------------------------------- C3
\* The handler has run for the current item and its row is not yet appended.
AbortPending ==
  /\ pc \in {"rs_finally", "summarise", "append"}
  /\ Interrupted(idx)

\* The row of an item whose child was interrupted.
AbortedRow(i) ==
  /\ results[i].SourceRepo = SourceName(repo_list[i])
  /\ results[i].TargetRepo = TargetName(repo_list[i])
  /\ results[i].Status = "Failed"

\* While the aborted item is pending, the only changes to the run are its own
\* error-log entry and then its own Failed row: no child is started, no
\* report is written, no other row or entry is added.
AbortRecordedFirst ==
  AbortPending =>
    /\ launched' = launched
    /\ reportWrites' = reportWrites
    /\ \/ errlog' = errlog
       \/ /\ ErrorEntriesOf(idx) = {}
          /\ errlog' = Append(errlog, [item |-> idx,
                                       source |-> SourceName(repo_list[idx]),
                                       target |-> TargetName(repo_list[idx]),
                                       output |-> output_lines])
          /\ results' = results
    /\ \/ results' = results
       \/ /\ Len(results') = idx
          /\ SubSeq(results', 1, idx - 1) = results
          /\ results'[idx].SourceRepo = SourceName(repo_list[idx])
          /\ results'[idx].TargetRepo = TargetName(repo_list[idx])
          /\ results'[idx].Status = "Failed"
          /\ Cardinality(ErrorEntriesOf(idx)) = 1

\* Once the loop has gone past an interrupted item, the item has exactly one
\* row, at its own position, with Status Failed, and one error-log entry.
AbortedItemKept ==
  \A i \in 1..Len(outcomes) :
    (Interrupted(i) /\ (idx > i \/ pc \in {"write_report", "done"})) =>
       /\ Len(results) >= i
       /\ AbortedRow(i)
       /\ Cardinality(ErrorEntriesOf(i)) = 1

C4_FailureDoesNotAbort ==
  /\ \A i \in 1..Len(results) :
       (i <= Len(outcomes) /\ outcomes[i] = "exitN") => results[i].Status = "Failed"
  /\ \A k \in 1..Len(launched) : launched[k] = k /\ Len(results) >= k - 1
  /\ (pc = "crashed" => exc # "none")
  /\ (pc \in {"item", "rs_open", "rs_popen"} => idx = Len(results) + 1)
  /\ ((pc = "done" /\ total > 0) => (Len(results) = total /\ Len(launched) = total))

\* A run without any interrupt whose first item failed and which processed
\* every item.
C4_Witness ==
  /\ pc = "done"
  /\ nIntr = 0
  /\ total >= 2
  /\ outcomes[1] = "exitN"
  /\ Len(results) = total
  /\ results[1].Status = "Failed"

\* ---------------------------------------------------------------- C5
\* C5: when subprocess.Popen raises, the exception does not leave
\* run_streaming: the call returns success = False and the run goes on.
C5_LaunchFailureReported ==
  exc = "OSError in Popen" => (pc # "crashed" /\ success = FALSE)

\* ---------------------------------------------------------------- C6
\* The main thread is outside run_streaming: before a call, after its return,
\* or after an exception has left it.
OutsideRunStreaming ==
  pc \in {"read_csv", "item", "summarise", "append", "write_report", "done", "crashed"}

\* C6: whenever run_streaming has returned or raised, the log file it opened
\* is closed.
C6_LogClosedOnEveryExit == OutsideRunStreaming => log_file # "open"

\* ---------------------------------------------------------------- C7
\* The input rows whose CURRENT-NAME is non-blank after stripping.
NonBlankCount ==
  Cardinality({ i \in 1..Len(csv) : csv[i].cur # None /\ Strip(csv[i].cur) # <<>> })

\* C7 as claimed: after a run without interruption the report has as many
\* rows as the input has non-blank CURRENT-NAMEs, also when that is zero.
C7_RowCountAsClaimed ==
  (pc = "done" /\ nIntr = 0) => Len(report.rows) = NonBlankCount

\* C7 amended: after a run without interruption over an input with at least
\* one non-blank CURRENT-NAME, the report written has that many rows; with
\* none, no report is written and MigrationDetails.csv is as it was.
C7_RowCount ==
  (pc = "done" /\ nIntr = 0) =>
    IF NonBlankCount > 0
    THEN report.exists /\ reportWrites = 1 /\ Len(report.rows) = NonBlankCount
    ELSE reportWrites = 0 /\ (report.exists => report.rows = StaleRows)

\* A completed run over an input with a blank and a non-blank CURRENT-NAME.
C7_Witness ==
  /\ pc = "done"
  /\ nIntr = 0
  /\ NonBlankCount >= 1
  /\ NonBlankCount < Len(csv)
  /\ Len(report.rows) = NonBlankCount

\* ---------------------------------------------------------------- C8
\* C8: the results are, row for row, the (source, target) pairs of a prefix
\* of the filtered input in input order, and the row of item i is appended
\* before the child of item i+1 is started.
C8_ResultsArePrefix ==
  /\ Len(results) <= Len(repo_list)
  /\ \A i \in 1..Len(results) :
       /\ results[i].SourceRepo = SourceName(repo_list[i])
       /\ results[i].TargetRepo = TargetName(repo_list[i])
  /\ \A k \in 1..Len(launched) : launched[k] = k /\ Len(results) >= k - 1
  /\ Len(launched) <= Len(results) + 1

\* Two different items recorded.
C8_Witness ==
  /\ Len(results) = 2
  /\ results[1].SourceRepo # results[2].SourceRepo
  /\ Len(launched) = 2

\* ---------------------------------------------------------------- C9
\* C9: a processed item whose child exited with 0 has Status Success and no
\* error-log entry; one whose child exited nonzero has Status Failed and
\* exactly one error-log entry naming its source and target; hence after any
\* run there are as many error-log entries as rows with Status Failed
\* (stated for the runs that saw at most one interrupt).
FailedRows == { i \in 1..Len(results) : results[i].Status = "Failed" }

C9_ErrorLogMatchesStatus ==
  /\ \A i \in 1..Len(results) :
       /\ outcomes[i] = "exit0" =>
            results[i].Status = "Success" /\ ErrorEntriesOf(i) = {}
       /\ outcomes[i] = "exitN" =>
            /\ results[i].Status = "Failed"
            /\ Cardinality(ErrorEntriesOf(i)) = 1
            /\ \A k \in ErrorEntriesOf(i) :
                 /\ errlog[k].source = results[i].SourceRepo
                 /\ errlog[k].target = results[i].TargetRepo
  /\ ((RunEnded /\ nIntr <= 1) => Len(errlog) = Cardinality(FailedRows))

\* --------------------------------------------------------------- C10
\* C10: at most one child process is alive at any time, also after an
\* interrupt ended a child by proc.terminate().
C10_OneChildAtATime == Cardinality(alive) <= 1

\* --------------------------------------------------------------- C11
\* C11: the log paths of two different positions of the work list differ, so
\* no item truncates or overwrites the log of an earlier item.
C11_LogPathsDistinct ==
  \A i, j \in 1..Len(results) : i # j => results[i].LogFile # results[j].LogFile

\* --------------------------------------------------------------- C12
\* The current run_streaming call could not open its log file.
NoLog ==
  /\ pc \in {"rs_popen", "rs_read", "rs_wait", "rs_finally", "summarise", "append"}
  /\ log_file = "None"

\* The exit of the current item's child decided success.
SuccessFromExit ==
  /\ outcomes[idx] = "exit0" => success = TRUE
  /\ outcomes[idx] = "exitN" => success = FALSE

NoLogState ==
  NoLog =>
    /\ warnings >= 1
    /\ (pc \in {"rs_read", "rs_wait"} => idx \in alive)
    /\ (pc \in {"rs_finally", "summarise", "append"} => SuccessFromExit)

NoLogStep ==
  /\ (pc = "rs_open" /\ warnings' = warnings + 1) =>
        (pc' = "rs_popen" /\ log_file' = "None" /\ logs' = logs)
  /\ NoLog => logs' = logs
  /\ (NoLog /\ pc = "append" /\ pc' \notin {"append", "crashed"}) =>
        /\ pc' \in {"item", "write_report"}
        /\ Len(results') = Len(results) + 1
        /\ (outcomes[idx] = "exit0" => results'[Len(results')].Status = "Success")
        /\ (outcomes[idx] = "exitN" => results'[Len(results')].Status = "Failed")

\* C12: when the log file cannot be opened, a warning is printed, the child
\* runs without per-item logging, success is decided by its exit code alone,
\* and the run goes on with the next item.
C12_OpenFailureIsLocal == []NoLogState /\ [][NoLogStep]_vars

\* Item 1 ran without a log, exited with 0, was recorded as Success, and the
\* loop is at item 2.
C12_Witness ==
  /\ pc = "item"
  /\ idx = 2
  /\ warnings = 1
  /\ log_file = "None"
  /\ logs = << >>
  /\ Len(results) = 1
  /\ results[1].Status = "Success"

\* --------------------------------------------------------------- C13
\* C13: a failing write to the open per-item log file is local: it does not
\* end the run; the item's outcome is recorded and the loop goes on.
C13_LogWriteFailureIsLocal == exc = "OSError in write" => pc # "crashed"

\* --------------------------------------------------------------- C14
\* NEW-NAME is missing or blank after stripping.
BlankNew(r) == r.new = None \/ Strip(r.new) = <<>>

\* The target a row must get.
TargetAsClaimed(r, source, target) ==
  IF BlankNew(r) THEN target = source ELSE target = Strip(r.new)

\* The command of the current item has been built.
CommandBuilt ==
  pc \in {"rs_open", "rs_popen", "rs_read", "rs_wait", "rs_finally", "summarise", "append"}

\* C14: a row whose NEW-NAME is missing or blank gets its source as target,
\* in the report, in the command and in the log file name; any other row
\* gets the stripped NEW-NAME.
C14_TargetDefaultsToSource ==
  /\ \A i \in 1..Len(results) :
       /\ TargetAsClaimed(repo_list[i], results[i].SourceRepo, results[i].TargetRepo)
       /\ results[i].LogFile =
            <<"logs/">> \o safe_log_name(results[i].SourceRepo) \o <<"__to__">>
                        \o safe_log_name(results[i].TargetRepo) \o <<".log">>
  /\ CommandBuilt =>
       /\ cmd.source = SourceName(repo_list[idx])
       /\ TargetAsClaimed(repo_list[idx], cmd.source, cmd.target)
       /\ (log_file = "open" =>
             <<"logs/">> \o safe_log_name(cmd.source) \o <<"__to__">>
                         \o safe_log_name(cmd.target) \o <<".log">> \in DOMAIN logs)

\* A row without NEW-NAME and a row with one, both recorded.
C14_Witness ==
  /\ Len(results) = 2
  /\ BlankNew(repo_list[1])
  /\ results[1].TargetRepo = results[1].SourceRepo
  /\ ~BlankNew(repo_list[2])
  /\ results[2].TargetRepo # results[2].SourceRepo
  /\ results[2].TargetRepo # repo_list[2].new

\* --------------------------------------------------------------- C15
\* C15: safe_log_name is idempotent.
C15_SanitizeIdempotent == san_twice # None => san_twice = san_once

\* A name that safe_log_name changed and shortened, sanitized twice.
C15_Witness ==
  /\ san_twice # None
  /\ san_once # san_in
  /\ Len(san_once) < Len(san_in)

\* --------------------------------------------------------------- C16
\* The positions of a name that give a character of the result: an allowed
\* character, or the first character of a run of disallowed ones.
Kept(name) ==
  { i \in 1..Len(name) :
      name[i] \notin {"/", " "} \/ i = 1 \/ name[i - 1] \notin {"/", " "} }

\* The position in the result of kept position i.
Rank(name, i) == Cardinality({ j \in Kept(name) : j <= i })

\* C16: the result of safe_log_name holds only letters, digits, ".", "-" and
\* "_"; every maximal run of disallowed characters has become exactly one
\* "_", every allowed character is kept in its order; the result is never
\* longer than the input.
C16_SanitizeShape ==
  san_once # None =>
    /\ \A k \in 1..Len(san_once) : san_once[k] \in {"a", "_", ".", "-"}
    /\ Len(san_once) = Cardinality(Kept(san_in))
    /\ \A i \in Kept(san_in) :
         san_once[Rank(san_in, i)] =
           (IF san_in[i] \in {"/", " "} THEN "_" ELSE san_in[i])
    /\ Len(san_once) <= Len(san_in)

\* A name with an allowed character and a run of two disallowed ones.
C16_Witness ==
  /\ san_once # None
  /\ \E i \in 1..(Len(san_in) - 1) : san_in[i] = "/" /\ san_in[i + 1] = " "
  /\ \E i \in 1..Len(san_in) : san_in[i] = "a"
  /\ Len(san_once) = 2

\* --------------------------------------------------------------- C17
\* The last summary line printed belongs to the last row recorded.
SummaryOfLastRow ==
  /\ Len(results) >= 1
  /\ pc \in {"item", "rs_open", "rs_popen", "rs_read", "rs_wait", "rs_finally",
            "summarise", "write_report", "done"}

\* C17: the label printed in an item's progress summary is Success or
\* Failed, and is the Status stored in the item's row.
C17_SummaryLabelIsStatus ==
  /\ status_msg # "" => status_msg \in {"Success", "Failed"}
  /\ SummaryOfLastRow => status_msg = results[Len(results)].Status

\* --------------------------------------------------------------- C18
\* run_streaming has handled an interrupt for the current item and its
\* result is not yet recorded.
AbortReturned == pc \in {"rs_finally", "summarise", "append"} /\ Interrupted(idx)

\* lines is the child lines received so far, in order, and then the marker.
EndsWithMarker(lines) ==
  /\ Len(lines) >= 1
  /\ lines[Len(lines)] = "[ABORTED] Interrupted by user."
  /\ \A k \in 1..(Len(lines) - 1) : lines[k] = ChildLines[k]

AbortResult ==
  AbortReturned =>
    /\ success = FALSE
    /\ idx \in terminated
    /\ EndsWithMarker(output_lines)
    /\ (log_file # "None" =>
          /\ EndsWithMarker(logs[per_repo_log(repo_list[idx])])
          /\ Len(logs[per_repo_log(repo_list[idx])]) = Len(output_lines))

\* The step that handles the interrupt asks the child to terminate and does
\* not wait for it: the child is as alive after the step as before.
AbortDoesNotWait ==
  (pc \in {"rs_read", "rs_wait"} /\ nIntr' = nIntr + 1) =>
     /\ pc' = "rs_finally"
     /\ idx \in terminated'
     /\ alive' = alive
     /\ idx \in alive'

\* C18: on an interrupt while reading output or waiting for the exit,
\* run_streaming requests termination, returns success = False without
\* waiting for the child, and the abort marker is the last entry of the
\* captured output and of the open log, after every line received before.
C18_AbortMarkerLast == []AbortResult /\ [][AbortDoesNotWait]_vars

\* run_streaming has returned after an interrupt that came after one line,
\* the log holds the line and the marker, and the child is still alive.
C18_Witness ==
  /\ pc = "summarise"
  /\ Interrupted(idx)
  /\ idx \in alive
  /\ Len(output_lines) = 2
  /\ log_file = "closed"
  /\ logs[per_repo_log(repo_list[idx])] = output_lines

\* --------------------------------------------------------------- C19
\* run_streaming is streaming, or has returned and its result is not yet
\* recorded, and it opened a log file.
StreamingWithLog ==
  /\ pc \in {"rs_read", "rs_wait", "rs_finally", "summarise", "append"}
  /\ log_file \in {"open", "closed"}

InLoop ==
  pc \in {"item", "rs_open", "rs_popen", "rs_read", "rs_wait", "rs_finally",
          "summarise", "append", "write_report"}

\* C20: when no input row has a non-blank CURRENT-NAME, migrate_repos
\* returns without starting a child, without creating a per-item log and
\* without writing or overwriting the report; the loop is entered only for
\* a non-empty work list.
C20_EmptyInputDoesNothing ==
  /\ NonBlankCount = 0 =>
       /\ ~InLoop
       /\ launched = <<>>
       /\ alive = {}
       /\ logs = << >>
       /\ results = <<>>
       /\ errlog = <<>>
       /\ reportWrites = 0
       /\ report \in { [exists |-> FALSE, rows |-> <<>>],
                       [exists |-> TRUE, rows |-> StaleRows] }
  /\ InLoop => (Len(repo_list) >= 1 /\ NonBlankCount >= 1)

\* migrate_repos has returned over rows that are all blank, and the report
\* of an earlier run is still there.
C20_Witness ==
  /\ pc = "done"
  /\ Len(csv) >= 1
  /\ NonBlankCount = 0
  /\ report = [exists |-> TRUE, rows |-> StaleRows]

====
